---------------------------- MODULE Spec2Model ----------------------------
(***************************************************************************)
(* Model of options/src/market.rs: the OptionMarket record, its fixed      *)
(* 249-byte Pack layout (pack_into_slice / unpack_from_slice) and the      *)
(* owner-checked reader OptionMarket::from_account_info.                   *)
(*                                                                         *)
(* Bytes are naturals 0..255 and a buffer is a sequence of bytes (index 1  *)
(* is byte 0 of the Rust slice).  TLC integers are 32 bits wide, so a      *)
(* 64-bit integer is kept as four 16-bit limbs, least significant first;   *)
(* the top limb of an i64 is signed (-32768..32767), the others and all    *)
(* limbs of a u64 are 0..65535.                                            *)
(***************************************************************************)
EXTENDS Integers, Sequences, FiniteSets, TLC

VARIABLES account, borrow, market, ret

vars == <<account, borrow, market, ret>>

(***************************************************************************)
(* Bounds of the model                                                     *)
(***************************************************************************)
\* the largest number of shared borrows of the account data the caller holds
MaxBorrows == 2

(***************************************************************************)
(* Constants of the program                                                *)
(***************************************************************************)
PUBLIC_KEY_LEN == 32

\* a length that counts the one-byte seed as two bytes
LEN_seed2 ==
    PUBLIC_KEY_LEN + PUBLIC_KEY_LEN + PUBLIC_KEY_LEN + PUBLIC_KEY_LEN
    + 8 + 8 + 8
    + PUBLIC_KEY_LEN + PUBLIC_KEY_LEN + PUBLIC_KEY_LEN
    + 2

LEN ==
    PUBLIC_KEY_LEN + PUBLIC_KEY_LEN + PUBLIC_KEY_LEN + PUBLIC_KEY_LEN
    + 8 + 8 + 8
    + PUBLIC_KEY_LEN + PUBLIC_KEY_LEN + PUBLIC_KEY_LEN
    + 1

(***************************************************************************)
(* Integer and key conversions                                             *)
(***************************************************************************)
\* the eight little-endian bytes of four unsigned 16-bit limbs
LimbsToLeBytes(l) ==
    [j \in 1..8 |-> IF j % 2 = 1 THEN l[(j + 1) \div 2] % 256
                                 ELSE l[j \div 2] \div 256]

\* the four unsigned 16-bit limbs of eight little-endian bytes
LeBytesToLimbs(b) ==
    [k \in 1..4 |-> b[2 * k - 1] + 256 * b[2 * k]]

\* the same limbs read most significant byte first
BeBytesToLimbs(b) ==
    [k \in 1..4 |-> b[10 - 2 * k] + 256 * b[9 - 2 * k]]

\* the eight bytes most significant first
BytesReversed(b) == [j \in 1..8 |-> b[9 - j]]

\* an encoder that writes the eight bytes big-endian
u64_to_be_bytes(v) == BytesReversed(LimbsToLeBytes(v))

u64_to_le_bytes(v) == LimbsToLeBytes(v)

\* a decoder that reads the eight bytes big-endian
u64_from_be_bytes(b) == BeBytesToLimbs(b)

u64_from_le_bytes(b) == LeBytesToLimbs(b)

\* two's complement: the signed top limb is written modulo 2^16
i64_to_le_bytes(v) ==
    LimbsToLeBytes(<<v[1], v[2], v[3], v[4] % 65536>>)

\* a decoder that forgets the sign of the top limb
i64_from_le_bytes_unsigned(b) == LeBytesToLimbs(b)

i64_from_le_bytes(b) ==
    LET u == LeBytesToLimbs(b)
    IN  <<u[1], u[2], u[3], IF u[4] >= 32768 THEN u[4] - 65536 ELSE u[4]>>

u8_to_le_bytes(v) == <<v>>

u8_from_le_bytes(b) == b[1]

\* Pubkey::new copies the 32 bytes of the slice it is given
Pubkey_new(bytes) == [i \in 1..PUBLIC_KEY_LEN |-> bytes[i]]

Pubkey_to_bytes(key) == [i \in 1..PUBLIC_KEY_LEN |-> key[i]]

(***************************************************************************)
(* arrayref                                                                *)
(***************************************************************************)
Panic == [status |-> "Panic", err |-> "", value |-> <<>>]

Ok(v) == [status |-> "Ok", err |-> "", value |-> <<v>>]

Err(e) == [status |-> "Err", err |-> e, value |-> <<>>]

\* array_ref![src, offset, len] indexes src[offset..offset+len]: out of
\* range is a panic, a longer slice gives its prefix
array_ref_fits(src, offset, len) == offset + len <= Len(src)

array_ref(src, offset, len) == SubSeq(src, offset + 1, offset + len)

\* the widths handed to array_refs! by unpack_from_slice
UnpackWidths ==
    <<PUBLIC_KEY_LEN, PUBLIC_KEY_LEN, PUBLIC_KEY_LEN, PUBLIC_KEY_LEN,
      8, 8, 8,
      PUBLIC_KEY_LEN, PUBLIC_KEY_LEN, PUBLIC_KEY_LEN,
      1>>

\* widths that put the one-byte seed before the three trailing keys
PackWidthsSwapped ==
    <<PUBLIC_KEY_LEN, PUBLIC_KEY_LEN, PUBLIC_KEY_LEN, PUBLIC_KEY_LEN,
      8, 8, 8,
      1,
      PUBLIC_KEY_LEN, PUBLIC_KEY_LEN, PUBLIC_KEY_LEN>>

\* the widths handed to mut_array_refs! by pack_into_slice
PackWidths ==
    <<PUBLIC_KEY_LEN, PUBLIC_KEY_LEN, PUBLIC_KEY_LEN, PUBLIC_KEY_LEN,
      8, 8, 8,
      PUBLIC_KEY_LEN, PUBLIC_KEY_LEN, PUBLIC_KEY_LEN,
      1>>

RECURSIVE SumTo(_, _)
SumTo(widths, k) == IF k = 0 THEN 0 ELSE widths[k] + SumTo(widths, k - 1)

\* array_refs! cuts the array into consecutive chunks: chunk k starts at the
\* sum of the widths before it
ChunkOffset(widths, k) == SumTo(widths, k - 1)

array_refs(src, widths) ==
    [k \in 1..Len(widths) |->
        SubSeq(src, ChunkOffset(widths, k) + 1, ChunkOffset(widths, k) + widths[k])]

\* chunk.copy_from_slice(bytes), the chunk being dst[offset..offset+len(bytes)]
copy_from_slice(dst, offset, bytes) ==
    [i \in 1..Len(dst) |->
        IF offset < i /\ i <= offset + Len(bytes) THEN bytes[i - offset] ELSE dst[i]]

(***************************************************************************)
(* impl Pack for OptionMarket                                              *)
(***************************************************************************)
is_initialized_false(self) == FALSE

is_initialized(self) == TRUE

unpack_from_slice(src) ==
    IF ~array_ref_fits(src, 0, LEN) THEN Panic
    ELSE
    LET s == array_ref(src, 0, LEN)
        c == array_refs(s, UnpackWidths)
    IN  Ok([option_mint                    |-> Pubkey_new(c[1]),
            writer_token_mint              |-> Pubkey_new(c[2]),
            underlying_asset_mint          |-> Pubkey_new(c[3]),
            quote_asset_mint               |-> Pubkey_new(c[4]),
            underlying_amount_per_contract |-> u64_from_le_bytes(c[5]),
            quote_amount_per_contract      |-> u64_from_le_bytes(c[6]),
            expiration_unix_timestamp      |-> i64_from_le_bytes(c[7]),
            underlying_asset_pool          |-> Pubkey_new(c[8]),
            quote_asset_pool               |-> Pubkey_new(c[9]),
            mint_fee_account               |-> Pubkey_new(c[10]),
            bump_seed                      |-> u8_from_le_bytes(c[11])])

\* the bytes copied into chunk k, in the order of the copy_from_slice calls
PackedField(self, k) ==
    CASE k = 1  -> Pubkey_to_bytes(self.option_mint)
      [] k = 2  -> Pubkey_to_bytes(self.writer_token_mint)
      [] k = 3  -> Pubkey_to_bytes(self.underlying_asset_mint)
      [] k = 4  -> Pubkey_to_bytes(self.quote_asset_mint)
      [] k = 5  -> u64_to_le_bytes(self.underlying_amount_per_contract)
      [] k = 6  -> u64_to_le_bytes(self.quote_amount_per_contract)
      [] k = 7  -> i64_to_le_bytes(self.expiration_unix_timestamp)
      [] k = 8  -> Pubkey_to_bytes(self.underlying_asset_pool)
      [] k = 9  -> Pubkey_to_bytes(self.quote_asset_pool)
      [] k = 10 -> Pubkey_to_bytes(self.mint_fee_account)
      [] k = 11 -> u8_to_le_bytes(self.bump_seed)

RECURSIVE PackChunks(_, _, _)
PackChunks(self, dst, k) ==
    IF k = 0 THEN dst
    ELSE copy_from_slice(PackChunks(self, dst, k - 1),
                         ChunkOffset(PackWidths, k), PackedField(self, k))

\* a pack that forgets the copy into the mint_fee_account chunk
pack_into_slice_skip(self, dst) ==
    IF ~array_ref_fits(dst, 0, LEN) THEN [status |-> "Panic", dst |-> dst]
    ELSE [status |-> "Ok",
          dst |-> copy_from_slice(PackChunks(self, dst, 9),
                                  ChunkOffset(PackWidths, 11), PackedField(self, 11))]

pack_into_slice(self, dst) ==
    IF ~array_ref_fits(dst, 0, LEN) THEN [status |-> "Panic", dst |-> dst]
    ELSE [status |-> "Ok", dst |-> PackChunks(self, dst, Len(PackWidths))]


(***************************************************************************)
(* Pack::unpack, Pack::unpack_unchecked and Pack::pack: the provided       *)
(* methods of the Pack trait through which the program reaches             *)
(* unpack_from_slice and pack_into_slice                                   *)
(***************************************************************************)
OkUnit == [status |-> "Ok", err |-> "", value |-> <<>>]

\* a wrapper that only rejects buffers too short to index
unpack_unchecked_prefix(input) ==
    IF Len(input) < LEN THEN Err("InvalidAccountData") ELSE unpack_from_slice(input)

unpack_unchecked(input) ==
    IF Len(input) # LEN THEN Err("InvalidAccountData") ELSE unpack_from_slice(input)

unpack(input) ==
    LET v == unpack_unchecked(input)
    IN  IF v.status # "Ok" THEN v
        ELSE IF is_initialized(v.value[1]) THEN v
        ELSE Err("UninitializedAccount")

pack(src, dst) ==
    IF Len(dst) # LEN THEN [result |-> Err("InvalidAccountData"), dst |-> dst]
    ELSE LET p == pack_into_slice(src, dst)
         IN  [result |-> IF p.status = "Ok" THEN OkUnit ELSE Panic, dst |-> p.dst]

(***************************************************************************)
(* OptionMarket::from_account_info                                         *)
(***************************************************************************)
\* The data of an AccountInfo sits in a RefCell; borrow is its flag: -1
\* while mutably borrowed, otherwise the number of shared borrows.
try_borrow_data(flag) ==
    IF flag < 0 THEN [ok |-> FALSE, flag |-> flag]
    ELSE [ok |-> TRUE, flag |-> flag + 1]

\* a Ref that is never released
drop_ref_leak(flag) == flag

\* the Ref option_market_data goes out of scope when the function returns
drop_ref(flag) == flag - 1

\* a reader that borrows the data before it compares the owner
from_account_info_borrow_first(account_info, flag, program_id) ==
    LET b == try_borrow_data(flag)
    IN  IF ~b.ok
        THEN [result |-> Err("AccountBorrowFailed"), flag |-> flag]
        ELSE IF account_info.owner # program_id
        THEN [result |-> Err("InvalidArgument"), flag |-> drop_ref(b.flag)]
        ELSE [result |-> unpack(account_info.data), flag |-> drop_ref(b.flag)]

from_account_info(account_info, flag, program_id) ==
    IF account_info.owner # program_id
    THEN [result |-> Err("InvalidArgument"), flag |-> flag]
    ELSE LET b == try_borrow_data(flag)
         IN  IF ~b.ok
             THEN [result |-> Err("AccountBorrowFailed"), flag |-> flag]
             ELSE [result |-> unpack(account_info.data), flag |-> drop_ref(b.flag)]

(***************************************************************************)
(* Inputs                                                                  *)
(***************************************************************************)
ZeroKey == [i \in 1..PUBLIC_KEY_LEN |-> 0]

\* the i-th key of Pubkey::new_unique: distinct and non-zero for i > 0
KeyUnique(i) == [j \in 1..PUBLIC_KEY_LEN |-> IF j = 1 THEN i ELSE 0]

\* a key with every byte set and varying
KeyDense(i) == [j \in 1..PUBLIC_KEY_LEN |-> 255 - ((j * i) % 128)]

U64(n) == <<n % 65536, n \div 65536, 0, 0>>

U64Max == <<65535, 65535, 65535, 65535>>

I64Max == <<65535, 65535, 65535, 32767>>

I64Min == <<0, 0, 0, -32768>>

I64MinusOne == <<65535, 65535, 65535, -1>>

UniqueKeys == [k \in 1..7 |-> KeyUnique(k)]

ZeroKeys == [k \in 1..7 |-> ZeroKey]

DenseKeys == [k \in 1..7 |-> KeyDense(k)]

\* <<underlying amount, quote amount, expiration, bump seed>>
TestNumbers == <<U64(100), U64(5), U64(1607743435), 1>>

ZeroNumbers == <<U64(0), U64(0), U64(0), 0>>

MaxNumbers == <<U64Max, U64Max, I64Max, 255>>

MinNumbers == <<U64(0), U64Max, I64Min, 255>>

NegNumbers == <<U64Max, U64(0), I64MinusOne, 0>>

OptionMarket(keys, nums) ==
    [option_mint                    |-> keys[1],
     writer_token_mint              |-> keys[2],
     underlying_asset_mint          |-> keys[3],
     quote_asset_mint               |-> keys[4],
     underlying_amount_per_contract |-> nums[1],
     quote_amount_per_contract      |-> nums[2],
     expiration_unix_timestamp      |-> nums[3],
     underlying_asset_pool          |-> keys[5],
     quote_asset_pool               |-> keys[6],
     mint_fee_account               |-> keys[7],
     bump_seed                      |-> nums[4]]

\* the record of the unit test and records at the edges of every field
TestMarket == OptionMarket(UniqueKeys, TestNumbers)

Markets ==
    { TestMarket,
      OptionMarket(ZeroKeys, ZeroNumbers),
      OptionMarket(ZeroKeys, MaxNumbers),
      OptionMarket(DenseKeys, MinNumbers),
      OptionMarket(DenseKeys, NegNumbers),
      OptionMarket(UniqueKeys, MaxNumbers) }

ProgramIds == { KeyUnique(8), KeyUnique(9) }

Fill(n, a, m) == [i \in 1..n |-> (a * i + m) % 256]

ZeroBuffer == Fill(LEN, 0, 0)

\* raw account data as the runtime may hand it over: empty, one byte short,
\* exact and one byte long, with zero, all-ones and mixed contents
RawBuffers ==
    { Fill(n, f[1], f[2]) :
        n \in {0, LEN - 1, LEN, LEN + 1},
        f \in {<<0, 0>>, <<0, 255>>, <<7, 3>>} }

\* let mut buf = [0u8; LEN]; OptionMarket::pack(r, &mut buf)
serialized(r) == pack(r, ZeroBuffer)

(***************************************************************************)
(* State machine                                                           *)
(***************************************************************************)
Note(op) == [op |-> op, arg |-> <<>>, status |-> "None", err |-> "", value |-> <<>>]

Returned(op, arg, r) ==
    [op |-> op, arg |-> arg, status |-> r.status, err |-> r.err, value |-> r.value]

Init ==
    /\ account \in [owner : ProgramIds, data : RawBuffers]
    /\ borrow = 0
    /\ market \in Markets
    /\ ret = Note("init")

\* the caller builds a record in memory
SetMarket(r) ==
    /\ market' = r
    /\ ret' = Note("construct")
    /\ UNCHANGED <<account, borrow>>

\* the runtime hands the program another account
LoadAccount(o, d) ==
    /\ borrow = 0
    /\ account' = [owner |-> o, data |-> d]
    /\ ret' = Note("load")
    /\ UNCHANGED <<borrow, market>>

\* let mut buf = [0u8; LEN]; OptionMarket::pack(market, &mut buf)
Encode ==
    /\ borrow = 0
    /\ LET p == serialized(market)
       IN  /\ account' = [account EXCEPT !.data = p.dst]
           /\ ret' = Returned("encode", <<>>, p.result)
    /\ UNCHANGED <<borrow, market>>

\* OptionMarket::pack(market, &mut data) on the data already in the account
PackAccount ==
    /\ borrow \in {-1, 0}
    /\ LET p == pack(market, account.data)
       IN  /\ account' = [account EXCEPT !.data = p.dst]
           /\ ret' = Returned("pack", <<>>, p.result)
    /\ UNCHANGED <<borrow, market>>

\* OptionMarket::unpack(&data)
Unpack ==
    /\ ret' = Returned("unpack", <<>>, unpack(account.data))
    /\ UNCHANGED <<account, borrow, market>>

\* OptionMarket::from_account_info(&account, &program_id)
FromAccountInfo(program_id) ==
    LET r == from_account_info(account, borrow, program_id)
    IN  /\ ret' = Returned("from_account_info", program_id, r.result)
        /\ borrow' = r.flag
        /\ UNCHANGED <<account, market>>

\* the caller keeps the record a read returned, to modify and re-encode it
TakeDecoded ==
    /\ ret.status = "Ok"
    /\ ret.value # <<>>
    /\ market' = ret.value[1]
    /\ ret' = Note("take")
    /\ UNCHANGED <<account, borrow>>

\* the caller borrows the account data itself
BorrowData ==
    /\ borrow >= 0
    /\ borrow < MaxBorrows
    /\ borrow' = borrow + 1
    /\ ret' = Note("borrow")
    /\ UNCHANGED <<account, market>>

BorrowDataMut ==
    /\ borrow = 0
    /\ borrow' = -1
    /\ ret' = Note("borrow_mut")
    /\ UNCHANGED <<account, market>>

DropBorrow ==
    /\ borrow # 0
    /\ borrow' = IF borrow = -1 THEN 0 ELSE borrow - 1
    /\ ret' = Note("drop")
    /\ UNCHANGED <<account, market>>

Next ==
    \/ \E r \in Markets : SetMarket(r)
    \/ \E o \in ProgramIds, d \in RawBuffers : LoadAccount(o, d)
    \/ Encode
    \/ PackAccount
    \/ Unpack
    \/ \E p \in ProgramIds : FromAccountInfo(p)
    \/ TakeDecoded
    \/ BorrowData
    \/ BorrowDataMut
    \/ DropBorrow

Spec == Init /\ [][Next]_vars

(***************************************************************************)
(* Properties                                                              *)
(***************************************************************************)
\* C1: round trip: when the account data is the buffer produced by encoding
\* the record the caller holds, unpack returns exactly that record, all
\* eleven fields equal, also at the edges of every field.
C1_RoundTrip ==
    (/\ ret.op = "unpack"
     /\ serialized(market).result.status = "Ok"
     /\ account.data = serialized(market).dst)
    => (ret.status = "Ok" /\ ret.value = <<market>>)

C1_Witness ==
    /\ ret.op = "unpack"
    /\ ret.status = "Ok"
    /\ account.data = serialized(market).dst
    /\ market = OptionMarket(DenseKeys, MinNumbers)
    /\ market.expiration_unix_timestamp = I64Min
    /\ market.quote_amount_per_contract = U64Max
    /\ market.bump_seed = 255

\* bytes off+1..off+8 of data hold the limbs little-endian (two's complement
\* for a negative top limb)
LittleEndianAt(data, off, limbs) ==
    \A j \in 0..3 :
        data[off + 2 * j + 1] + 256 * data[off + 2 * j + 2] = limbs[j + 1] % 65536

\* the byte ranges of the eleven fields: <<first byte, last byte>>, from 0
FieldRanges ==
    << <<0, 31>>, <<32, 63>>, <<64, 95>>, <<96, 127>>,
       <<128, 135>>, <<136, 143>>, <<144, 151>>,
       <<152, 183>>, <<184, 215>>, <<216, 247>>,
       <<248, 248>> >>

\* C2: offset stability: after a successful encode the buffer holds every
\* field in the byte range given by the running sum of the widths before it
\* (keys verbatim, integers little-endian, no gap and no overlap), and
\* unpack cuts the buffer at the same ranges as pack.
C2_OffsetStability ==
    (ret.op \in {"encode", "pack"} /\ ret.status = "Ok")
    => /\ Len(account.data) = 249
       /\ SubSeq(account.data, 1, 32) = market.option_mint
       /\ SubSeq(account.data, 33, 64) = market.writer_token_mint
       /\ SubSeq(account.data, 65, 96) = market.underlying_asset_mint
       /\ SubSeq(account.data, 97, 128) = market.quote_asset_mint
       /\ LittleEndianAt(account.data, 128, market.underlying_amount_per_contract)
       /\ LittleEndianAt(account.data, 136, market.quote_amount_per_contract)
       /\ LittleEndianAt(account.data, 144, market.expiration_unix_timestamp)
       /\ SubSeq(account.data, 153, 184) = market.underlying_asset_pool
       /\ SubSeq(account.data, 185, 216) = market.quote_asset_pool
       /\ SubSeq(account.data, 217, 248) = market.mint_fee_account
       /\ account.data[249] = market.bump_seed
       /\ \A k \in 1..11 :
            /\ ChunkOffset(PackWidths, k) = FieldRanges[k][1]
            /\ ChunkOffset(PackWidths, k) + PackWidths[k] - 1 = FieldRanges[k][2]
            /\ ChunkOffset(UnpackWidths, k) = FieldRanges[k][1]
            /\ ChunkOffset(UnpackWidths, k) + UnpackWidths[k] - 1 = FieldRanges[k][2]

C2_Witness ==
    /\ ret.op = "encode"
    /\ ret.status = "Ok"
    /\ market = OptionMarket(UniqueKeys, MaxNumbers)

\* the record of the concrete scenario: amounts 100 and 5, expiration
\* 1607743435, seed 1, seven distinct non-zero keys
IsScenario(m) ==
    /\ m.underlying_amount_per_contract = <<100, 0, 0, 0>>
    /\ m.quote_amount_per_contract = <<5, 0, 0, 0>>
    /\ m.expiration_unix_timestamp = <<14283, 24532, 0, 0>>
    /\ m.bump_seed = 1
    /\ LET keys == <<m.option_mint, m.writer_token_mint, m.underlying_asset_mint,
                     m.quote_asset_mint, m.underlying_asset_pool,
                     m.quote_asset_pool, m.mint_fee_account>>
       IN  /\ \A i \in 1..7 : keys[i] # ZeroKey
           /\ \A i, j \in 1..7 : i # j => keys[i] # keys[j]

\* C3 as stated: the encoded scenario holds 100 at bytes 224-231, 5 at bytes
\* 232-239, 1607743435 at bytes 240-247 and 1 at byte 248, and decodes back.
C3_Original ==
    (ret.op = "encode" /\ ret.status = "Ok" /\ IsScenario(market))
    => /\ Len(account.data) = 249
       /\ SubSeq(account.data, 225, 232) = <<100, 0, 0, 0, 0, 0, 0, 0>>
       /\ SubSeq(account.data, 233, 240) = <<5, 0, 0, 0, 0, 0, 0, 0>>
       /\ SubSeq(account.data, 241, 248) = <<203, 55, 212, 95, 0, 0, 0, 0>>
       /\ account.data[249] = 1
       /\ unpack(account.data) = Ok(market)

\* C3 amended: the encoded scenario holds 100 at bytes 128-135, 5 at bytes
\* 136-143, 1607743435 at bytes 144-151 and 1 at byte 248, and decodes back.
C3_Amended ==
    (ret.op = "encode" /\ ret.status = "Ok" /\ IsScenario(market))
    => /\ Len(account.data) = 249
       /\ SubSeq(account.data, 129, 136) = <<100, 0, 0, 0, 0, 0, 0, 0>>
       /\ SubSeq(account.data, 137, 144) = <<5, 0, 0, 0, 0, 0, 0, 0>>
       /\ SubSeq(account.data, 145, 152) = <<203, 55, 212, 95, 0, 0, 0, 0>>
       /\ account.data[249] = 1
       /\ unpack(account.data) = Ok(market)

C3_Witness ==
    /\ ret.op = "encode"
    /\ ret.status = "Ok"
    /\ IsScenario(market)
    /\ account.data[129] = 100

\* C4: fixed width: LEN is 249 = 7*32 + 3*8 + 1; encoding the record held
\* never fails and gives 249 bytes; pack and unpack reach the slice
\* functions only with a buffer of 249 bytes and never panic.
C4_FixedWidth ==
    /\ LEN = 249
    /\ LEN = 7 * 32 + 3 * 8 + 1
    /\ LET e == serialized(market)
       IN  e.result.status = "Ok" /\ Len(e.dst) = 249
    /\ ret.op = "encode" => (ret.status = "Ok" /\ Len(account.data) = 249)
    /\ ret.status # "Panic"
    /\ ret.op \in {"pack", "unpack"} =>
          (ret.status = "Ok" <=> Len(account.data) = 249)
    /\ (ret.op = "from_account_info" /\ ret.status = "Ok") => Len(account.data) = 249

C4_Witness ==
    /\ ret.op = "encode"
    /\ ret.status = "Ok"
    /\ Len(account.data) = 249
    /\ market = OptionMarket(ZeroKeys, MaxNumbers)

\* C5: malformed length: unpack of a buffer that is not 249 bytes long
\* (empty, one short, one long) returns the error InvalidAccountData and no
\* record; it neither panics nor decodes a prefix.
C5_MalformedLength ==
    (ret.op = "unpack" /\ Len(account.data) # 249)
    => (ret.status = "Err" /\ ret.err = "InvalidAccountData" /\ ret.value = <<>>)

C5_Witness ==
    /\ ret.op = "unpack"
    /\ Len(account.data) = 250
    /\ ret.status = "Err"
    /\ ret.err = "InvalidAccountData"

\* C6: owner check first: from_account_info on an account whose owner is not
\* the program id returns InvalidArgument and no record, whatever the data
\* and whatever the borrow state of the data.
C6_OwnerFirst ==
    (ret.op = "from_account_info" /\ account.owner # ret.arg)
    => (ret.status = "Err" /\ ret.err = "InvalidArgument" /\ ret.value = <<>>)

C6_Witness ==
    /\ ret.op = "from_account_info"
    /\ account.owner # ret.arg
    /\ borrow = -1
    /\ Len(account.data) # 249
    /\ ret.err = "InvalidArgument"

\* C7 as stated: from_account_info returns a record, InvalidArgument or
\* InvalidAccountData and nothing else, and returns a record whenever the
\* owner matches and the data is 249 bytes long.
C7_Original ==
    ret.op = "from_account_info"
    => /\ \/ ret.status = "Ok"
          \/ ret.status = "Err" /\ ret.err \in {"InvalidArgument", "InvalidAccountData"}
       /\ (account.owner = ret.arg /\ Len(account.data) = 249) => ret.status = "Ok"

\* C7 amended: from_account_info returns InvalidArgument exactly on an owner
\* mismatch, else AccountBorrowFailed exactly when the data is mutably
\* borrowed, else InvalidAccountData exactly when the data is not 249 bytes
\* long, else a record; no other error (none for an uninitialized record).
C7_Amended ==
    ret.op = "from_account_info"
    => /\ ret.status \in {"Ok", "Err"}
       /\ ret.status = "Ok" => ret.value # <<>>
       /\ ret.status = "Err" =>
            ret.err \in {"InvalidArgument", "AccountBorrowFailed", "InvalidAccountData"}
       /\ (ret.status = "Err" /\ ret.err = "InvalidArgument")
            <=> account.owner # ret.arg
       /\ (ret.status = "Err" /\ ret.err = "AccountBorrowFailed")
            <=> (account.owner = ret.arg /\ borrow = -1)
       /\ (ret.status = "Err" /\ ret.err = "InvalidAccountData")
            <=> (account.owner = ret.arg /\ borrow # -1 /\ Len(account.data) # 249)
       /\ ret.status = "Ok"
            <=> (account.owner = ret.arg /\ borrow # -1 /\ Len(account.data) = 249)

C7_Witness ==
    /\ ret.op = "from_account_info"
    /\ account.owner = ret.arg
    /\ Len(account.data) = 249
    /\ borrow = -1
    /\ ret.status = "Err"
    /\ ret.err = "AccountBorrowFailed"

\* C8: no side effects: a step of unpack or from_account_info, whatever it
\* returns, leaves the account's owner and data, the borrow state of the data
\* and the caller's record as they were, returns no record with an error, and
\* the same call on the state it leaves returns the same outcome.
C8_NoSideEffects ==
    [][ (/\ ret'.op \in {"unpack", "from_account_info"}
         /\ (Unpack \/ \E p \in ProgramIds : FromAccountInfo(p)))
        => /\ account' = account
           /\ borrow' = borrow
           /\ market' = market
           /\ ret'.status # "Ok" => ret'.value = <<>>
           /\ ret'.op = "unpack" =>
                ret' = Returned("unpack", <<>>, unpack(account'.data))
           /\ ret'.op = "from_account_info" =>
                ret' = Returned("from_account_info", ret'.arg,
                                from_account_info(account', borrow', ret'.arg).result)
      ]_vars

C8_Witness ==
    /\ ret.op = "from_account_info"
    /\ ret.status = "Err"
    /\ ret.err = "InvalidAccountData"
    /\ borrow = 1

\* C9: unpack is total on 249-byte buffers and pack undoes it: every 249-byte
\* buffer unpacks to a record, and encoding that record gives the buffer back
\* byte for byte.
C9_DecodeEncode ==
    (ret.op = "unpack" /\ Len(account.data) = 249)
    => /\ ret.status = "Ok"
       /\ ret.value # <<>>
       /\ serialized(ret.value[1]).result.status = "Ok"
       /\ serialized(ret.value[1]).dst = account.data

C9_Witness ==
    /\ ret.op = "unpack"
    /\ ret.status = "Ok"
    /\ account.data = Fill(LEN, 7, 3)
    /\ \A m \in Markets : serialized(m).dst # account.data

\* C10: pack overwrites all 249 bytes: after a successful pack into the
\* account data, whatever the data held before, the data is exactly the
\* encoding of the record into a fresh zeroed buffer and unpacks to it.
C10_Overwrites ==
    [][ (/\ ret'.op \in {"pack", "encode"}
         /\ ret'.status = "Ok"
         /\ (PackAccount \/ Encode))
        => /\ account'.data = serialized(market).dst
           /\ unpack(account'.data) = Ok(market)
      ]_vars

C10_Witness ==
    /\ ret.op = "pack"
    /\ ret.status = "Ok"
    /\ market = TestMarket
    /\ account.data = serialized(TestMarket).dst

==========================================================================
